---- MODULE Spec2Model ----
(***************************************************************************)
(* Incremental ingestion and currency normalisation of the stock-market    *)
(* analytics pipeline:                                                     *)
(*   analytics/etl/enhanced_market_data_fetcher.py  (ingestion engine,     *)
(*                                                   data quality gate)    *)
(*   analytics/database/db_manager.py               (price store, metrics) *)
(*   analytics/utils/currency_converter.py          (currency normaliser)  *)
(*                                                                         *)
(* Prices are integers (cents).  Calendar dates are day numbers; the text  *)
(* form 'YYYY-MM-DD' that sqlite stores and compares is a fixed-width      *)
(* digit sequence.  An exchange rate is a pair <<num, den>>.               *)
(***************************************************************************)
EXTENDS Integers, Sequences, FiniteSets, Bags, TLC

\* ---------------------------------------------------------------- bounds
MaxDay == 2          \* number of calendar days the clock can show
MaxCycles == 2       \* number of ingestion cycles in one behaviour
MaxSeriesLen == 2    \* longest series the Quote Provider returns
MaxCalls == 2        \* number of direct handler calls in one behaviour

\* ------------------------------------------------------ program constants
max_retries == 3
retry_delay == 60
EpochStart == 400    \* datetime(2021, 12, 1) as a day number
TrailingDays == 365
NULL == -999         \* Python None / SQL NULL / pandas NaN
NoDate == 0          \* get_latest_data_date returning None

Days == EpochStart .. (EpochStart + MaxDay - 1)

Abs(x) == IF x < 0 THEN 0 - x ELSE x

Range(s) == {s[i] : i \in DOMAIN s}

\* ------------------------------------------------------------ date text
\* index.strftime('%Y-%m-%d'): fixed width, most significant digit first
StrfTime(d) == <<d \div 100, (d \div 10) % 10, d % 10>>

\* datetime.strptime(text, '%Y-%m-%d').date()
StrpTime(s) == s[1] * 100 + s[2] * 10 + s[3]

\* sqlite's comparison of two TEXT values of this form
TextLeq(a, b) ==
    \/ a[1] < b[1]
    \/ a[1] = b[1] /\ a[2] < b[2]
    \/ a[1] = b[1] /\ a[2] = b[2] /\ a[3] <= b[3]

\* ------------------------------------------------------------ instruments
\* rows of the symbols table: id, name order, quote currency
SymbolIds == {1, 2}

SymbolCurrency(id) == IF id = 1 THEN "USD" ELSE "EUR"

\* ------------------------------------------------------- sqlite tables
\* A table is a bag of rows.  INSERT OR REPLACE deletes every row that
\* conflicts with the new row on the table's unique key, then inserts.
EtfDataKey == {"symbol_id", "date"}

CurrencyRatesKey == {"from_currency", "to_currency", "rate_date"}

MetricsKey == {"symbol_id", "calculation_date"}

InsertOrReplace(tbl, row, unique) ==
    LET keep == {r \in DOMAIN tbl : \E c \in unique : r[c] # row[c]}
    IN  [r \in keep |-> tbl[r]] (+) SetToBag({row})

Rows(tbl) == BagToSet(tbl)

\* ------------------------------------------------------ Data Quality Gate
\* A DataFrame is a sequence of rows [date, Open, High, Low, Close, Volume]
\* in index order; date is the Timestamp index.
PriceColumns == <<"Open", "High", "Low", "Close">>

Columns == PriceColumns \o <<"Volume">>

\* df.isnull().sum(): one issue per column that has a null
MissingIssues(df) ==
    LET cnt(c) == Cardinality({i \in DOMAIN df : df[i][c] = NULL})
        all == [k \in DOMAIN Columns |-> <<"missing", Columns[k], cnt(Columns[k])>>]
    IN  SelectSeq(all, LAMBDA t : t[3] > 0)

\* (df[col] < 0).sum(): a null compares False
NegativeIssues(df) ==
    LET cnt(c) == Cardinality({i \in DOMAIN df : df[i][c] # NULL /\ df[i][c] < 0})
        all == [k \in DOMAIN PriceColumns |->
                    <<"negative", PriceColumns[k], cnt(PriceColumns[k])>>]
    IN  SelectSeq(all, LAMBDA t : t[3] > 0)

\* df['Close'].pct_change().abs() > 0.5 for one pair of consecutive closes:
\* x/0 is inf for x # 0 and nan for x = 0, and nan compares False
ExtremeMove(prev, cur) ==
    IF prev = NULL \/ cur = NULL THEN FALSE
    ELSE IF prev = 0 THEN cur # 0
    ELSE 2 * Abs(cur - prev) > Abs(prev)

ExtremeIssues(df) ==
    LET cnt == Cardinality({i \in 2 .. Len(df) : ExtremeMove(df[i - 1].Close, df[i].Close)})
    IN  IF Len(df) > 1 /\ cnt > 0 THEN << <<"extreme", "Close", cnt>> >> ELSE <<>>

\* mutant: half of the bars with zero volume is already an issue
VolumeIssues_Half(df) ==
    LET zero_volume == Cardinality({i \in DOMAIN df : df[i].Volume = 0})
    IN  IF 2 * zero_volume >= Len(df)
        THEN << <<"zero_volume", "Volume", zero_volume>> >> ELSE <<>>

\* zero_volume > len(df) * 0.5
VolumeIssues(df) ==
    LET zero_volume == Cardinality({i \in DOMAIN df : df[i].Volume = 0})
    IN  IF 2 * zero_volume > Len(df)
        THEN << <<"zero_volume", "Volume", zero_volume>> >> ELSE <<>>

validate_issues(df) ==
    IF df = <<>> THEN << <<"empty", "", 0>> >>
    ELSE MissingIssues(df) \o NegativeIssues(df) \o ExtremeIssues(df) \o VolumeIssues(df)

validate_data_quality(df) ==
    [is_valid |-> validate_issues(df) = <<>>, issues |-> validate_issues(df)]

\* ----------------------------------------------------- Currency Normaliser
\* dict.get(key): None when the key is absent
Get(rec, k) == IF k \in DOMAIN rec THEN rec[k] ELSE NULL

\* truth value of a number-or-None in "x if value else None"
Truthy(x) == x # NULL /\ x # 0

\* round(value, 2) of the exact product n/d, in cents
RoundHalfEven(n, d) ==
    LET q == n \div d
        r == n % d
    IN  IF 2 * r < d THEN q
        ELSE IF 2 * r > d THEN q + 1
        ELSE IF q % 2 = 0 THEN q ELSE q + 1

ConvertField(x, rate) ==
    IF Truthy(x) THEN RoundHalfEven(x * rate[1], rate[2]) ELSE NULL

\* The external rate source answers a range request with yf = [raises, hist],
\* hist a map from date text to rate (the rows of ticker.history).
get_historical_exchange_rates(from_currency, start_date, end_date, to_currency, yf) ==
    IF from_currency = to_currency
    THEN [t \in {StrfTime(d) : d \in start_date .. end_date} |-> <<1, 1>>]
    ELSE IF ~(from_currency \in {"USD", "GBP"} /\ to_currency = "EUR") THEN <<>>
    ELSE IF yf.raises THEN <<>>
    ELSE yf.hist

RECURSIVE StoreRates(_, _, _, _, _)
StoreRates(tbl, from_currency, to_currency, rates, todo) ==
    IF todo = {} THEN tbl
    ELSE LET t == CHOOSE x \in todo : TRUE
             row == [from_currency |-> from_currency, to_currency |-> to_currency,
                     rate_date |-> t, exchange_rate |-> rates[t]]
         IN  StoreRates(InsertOrReplace(tbl, row, CurrencyRatesKey),
                        from_currency, to_currency, rates, todo \ {t})

\* mutant: the rows are inserted but never committed
store_exchange_rates_Lost(tbl, from_currency, to_currency, rates, sqlite_error) == tbl

\* a sqlite error is logged and swallowed; nothing is committed
store_exchange_rates(tbl, from_currency, to_currency, rates, sqlite_error) ==
    IF sqlite_error THEN tbl
    ELSE StoreRates(tbl, from_currency, to_currency, rates, DOMAIN rates)

\* None where a rate is expected
NoRate == <<0, 0>>

\* mutant: the lookup never finds a row
get_cached_exchange_rate_Miss(tbl, from_currency, to_currency, target_date, sqlite_error) == NoRate

\* SELECT exchange_rate ... WHERE from_currency = ? AND to_currency = ? AND
\* rate_date = ?; fetchone; a sqlite error is logged and None returned
get_cached_exchange_rate(tbl, from_currency, to_currency, target_date, sqlite_error) ==
    LET hits == {r \in Rows(tbl) : /\ r.from_currency = from_currency
                                   /\ r.to_currency = to_currency
                                   /\ r.rate_date = StrfTime(target_date)}
    IN  IF sqlite_error \/ hits = {} THEN NoRate
        ELSE (CHOOSE r \in hits : TRUE).exchange_rate

\* a datetime.date where a currency code is expected: equal to no code
DateObject == "datetime.date"

\* lines 45-52: the pairs for which ticker.history is called
SupportedPair(from_currency, to_currency) ==
    /\ from_currency # to_currency
    /\ from_currency \in {"USD", "GBP"} /\ to_currency = "EUR"

\* get_exchange_rate(from_currency, to_currency, target_date).  Line 166
\* calls get_historical_exchange_rates(from_currency, to_currency,
\* target_date, target_date) against the signature (from_currency,
\* start_date, end_date, to_currency): start_date receives the currency code
\* and to_currency receives the date.
\* Result: the returned rate, the cache, the requests sent to the rate
\* source and the number of cache reads.
get_exchange_rate(cache, from_currency, to_currency, target_date, yf, read_fails, store_fails) ==
    LET cached_rate == get_cached_exchange_rate(cache, from_currency, to_currency,
                                                target_date, read_fails)
        start_date == to_currency
        end_date == target_date
        pair_to == DateObject
        rates == get_historical_exchange_rates(from_currency, start_date, end_date, pair_to, yf)
        asked == IF SupportedPair(from_currency, pair_to)
                 THEN << [from_currency |-> from_currency, to_currency |-> pair_to,
                          start_date |-> start_date, end_date |-> end_date] >>
                 ELSE <<>>
    IN  IF from_currency = to_currency
        THEN [returned |-> <<1, 1>>, cache |-> cache, asked |-> <<>>, cache_reads |-> 0]
        ELSE IF cached_rate # NoRate
        THEN [returned |-> cached_rate, cache |-> cache, asked |-> <<>>, cache_reads |-> 1]
        ELSE IF DOMAIN rates # {}
        THEN [returned |-> IF StrfTime(target_date) \in DOMAIN rates
                           THEN rates[StrfTime(target_date)] ELSE NoRate,
              cache |-> store_exchange_rates(cache, from_currency, to_currency, rates,
                                             store_fails),
              asked |-> asked, cache_reads |-> 1]
        ELSE [returned |-> NoRate, cache |-> cache, asked |-> asked, cache_reads |-> 1]

EurSame(data) ==
    [open_eur |-> Get(data, "open"), high_eur |-> Get(data, "high"),
     low_eur |-> Get(data, "low"), close_eur |-> Get(data, "close")] @@ data

EurConverted(data, rate) ==
    [open_eur |-> ConvertField(Get(data, "open"), rate),
     high_eur |-> ConvertField(Get(data, "high"), rate),
     low_eur |-> ConvertField(Get(data, "low"), rate),
     close_eur |-> ConvertField(Get(data, "close"), rate)] @@ data

EurNone(data) ==
    [open_eur |-> NULL, high_eur |-> NULL, low_eur |-> NULL, close_eur |-> NULL] @@ data

MinDate(S) == CHOOSE a \in S : \A b \in S : TextLeq(a, b)

MaxDate(S) == CHOOSE a \in S : \A b \in S : TextLeq(b, a)

\* unique_dates: the dates present in the batch
UniqueDates(price_data) ==
    {price_data[i].date : i \in {j \in DOMAIN price_data : "date" \in DOMAIN price_data[j]}}

\* mutant: the list of dates is not sorted before its first entry is taken
RangeStart_Unsorted(price_data) == StrpTime(price_data[1].date)

\* unique_dates.sort(), then the first and the last entry, parsed
RangeStart(price_data) == StrpTime(MinDate(UniqueDates(price_data)))

RangeEnd(price_data) == StrpTime(MaxDate(UniqueDates(price_data)))

\* mutant: the lookup of the record's date in the rate map never matches
HasRate_Never(data, rates) == FALSE

\* line 236: date_str and date_str in rates
HasRate(data, rates) == "date" \in DOMAIN data /\ data.date \in DOMAIN rates

\* a price that is text: truthy, and text * float raises TypeError
TextPrice == -998

\* lines 239-242: a record with a rate and a text price makes the loop raise
ConversionRaises(price_data, rates) ==
    \E i \in DOMAIN price_data :
       /\ HasRate(price_data[i], rates)
       /\ \E k \in {"open", "high", "low", "close"} :
             k \in DOMAIN price_data[i] /\ price_data[i][k] = TextPrice

\* result: the converted list, the rate cache, the range requests made, the
\* rate map the request returned and whether the loop raised
convert_price_data_batch(price_data, from_currency, cache, yf, sqlite_error) ==
    LET unique_dates == UniqueDates(price_data)
        start_date == RangeStart(price_data)
        end_date == RangeEnd(price_data)
        rates == get_historical_exchange_rates(from_currency, start_date, end_date, "EUR", yf)
    IN  IF from_currency = "EUR"
        THEN [data |-> [i \in DOMAIN price_data |-> EurSame(price_data[i])],
              cache |-> cache, calls |-> <<>>, rates |-> <<>>, raised |-> FALSE]
        ELSE IF unique_dates = {}
        THEN [data |-> price_data, cache |-> cache, calls |-> <<>>, rates |-> <<>>,
              raised |-> FALSE]
        ELSE [data |-> IF ConversionRaises(price_data, rates) THEN <<>>
                       ELSE [i \in DOMAIN price_data |->
                               IF HasRate(price_data[i], rates)
                               THEN EurConverted(price_data[i], rates[price_data[i].date])
                               ELSE EurNone(price_data[i])],
              raised |-> ConversionRaises(price_data, rates),
              cache |-> store_exchange_rates(cache, from_currency, "EUR", rates, sqlite_error),
              calls |-> << [from_currency |-> from_currency, to_currency |-> "EUR",
                            start_date |-> start_date, end_date |-> end_date] >>,
              rates |-> rates]

\* ------------------------------------------------------------ Price Store
\* one dictionary per DataFrame row (db_manager.py 179-188)
PriceRecord(row) ==
    [date |-> StrfTime(row.date), open |-> row.Open, high |-> row.High,
     low |-> row.Low, close |-> row.Close, volume |-> row.Volume]

EtfRow(symbol_id, price_data) ==
    [symbol_id |-> symbol_id, date |-> price_data.date,
     open |-> price_data.open, high |-> price_data.high,
     low |-> price_data.low, close |-> price_data.close,
     volume |-> price_data.volume,
     open_eur |-> Get(price_data, "open_eur"), high_eur |-> Get(price_data, "high_eur"),
     low_eur |-> Get(price_data, "low_eur"), close_eur |-> Get(price_data, "close_eur")]

\* mutant: a plain INSERT, the row already stored under the key stays
UpsertEtfRow_Append(tbl, row) == tbl (+) SetToBag({row})

\* INSERT OR REPLACE INTO etf_data, one execute of the loop
UpsertEtfRow(tbl, row) == InsertOrReplace(tbl, row, EtfDataKey)

\* mutant: the loop stops one record early
RECURSIVE InsertAll_DropLast(_, _, _, _)
InsertAll_DropLast(tbl, s, price_data_list, i) ==
    IF i >= Len(price_data_list) THEN tbl
    ELSE InsertAll_DropLast(UpsertEtfRow(tbl, EtfRow(s, price_data_list[i])),
                            s, price_data_list, i + 1)

RECURSIVE InsertAll(_, _, _, _)
InsertAll(tbl, s, price_data_list, i) ==
    IF i > Len(price_data_list) THEN tbl
    ELSE InsertAll(UpsertEtfRow(tbl, EtfRow(s, price_data_list[i])),
                   s, price_data_list, i + 1)

\* mutant: the connection commits each statement as it is executed
CloseWithoutCommit_Keeps(tbl, pending) == pending

\* lines 217-222: the error is re-raised and disconnect closes the connection
\* with the transaction open; sqlite discards the pending rows
CloseWithoutCommit(tbl, pending) == tbl

\* self.connect(), lines 25-31
connect(conn) == IF conn = "None" THEN "open" ELSE conn

\* self.disconnect(), lines 33-40
disconnect(conn) == "None"

\* env = [yf, cache_error, db_error]: the rate source's answer, a sqlite error
\* inside store_exchange_rates, a sqlite error while inserting or committing.
\* Result: both tables, the rate requests made, whether the call raised and
\* self.conn at the exit.
insert_market_data(tbl, cache, symbol_id, data, currency, env) ==
    LET price_data_list == [i \in DOMAIN data |-> PriceRecord(data[i])]
        needed == currency # "None" /\ currency # "EUR"
        conv == IF needed
                THEN convert_price_data_batch(price_data_list, currency, cache,
                                              env.yf, env.cache_error)
                ELSE [data |-> price_data_list, cache |-> cache, calls |-> <<>>]
    IN  IF \E i \in DOMAIN data : data[i].Volume = NULL
        THEN \* int(nan) raises ValueError while the list is built
             [etf_data |-> tbl, currency_rates |-> cache, calls |-> <<>>, raised |-> TRUE,
              conn |-> disconnect(connect("None"))]
        ELSE IF env.db_error
        THEN \* sqlite3.Error at an INSERT or at the commit: re-raised
             [etf_data |-> CloseWithoutCommit(tbl, InsertAll(tbl, symbol_id, conv.data, 1)),
              currency_rates |-> conv.cache, calls |-> conv.calls, raised |-> TRUE,
              conn |-> disconnect(connect("None"))]
        ELSE [etf_data |-> InsertAll(tbl, symbol_id, conv.data, 1),
              currency_rates |-> conv.cache, calls |-> conv.calls, raised |-> FALSE,
              conn |-> disconnect(connect("None"))]

\* SELECT MAX(date) FROM etf_data WHERE symbol_id = ?, parsed back to a date
get_latest_data_date(tbl, symbol_id, db_error) ==
    LET dates == {r.date : r \in {x \in Rows(tbl) : x.symbol_id = symbol_id}}
    IN  IF db_error THEN NoDate
        ELSE IF dates = {} THEN NoDate
        ELSE StrpTime(MaxDate(dates))

RECURSIVE OrderByDate(_)
OrderByDate(S) ==
    IF S = {} THEN <<>>
    ELSE LET m == CHOOSE r \in S : \A q \in S : TextLeq(r.date, q.date)
         IN  <<m>> \o OrderByDate(S \ {m})

\* mutant: only the bar of end_date is selected
get_market_data_range_Today(tbl, symbol_id, start_date, end_date) ==
    LET sel == {r \in Rows(tbl) : r.symbol_id = symbol_id /\ r.date = StrfTime(end_date)}
        row(r) == [date |-> r.date, open |-> r.open, high |-> r.high,
                   low |-> r.low, close |-> r.close, volume |-> r.volume]
        ordered == OrderByDate(sel)
    IN  [i \in DOMAIN ordered |-> row(ordered[i])]

\* rows of the symbol with date BETWEEN the two bounds, ORDER BY date
get_market_data_range(tbl, symbol_id, start_date, end_date) ==
    LET sel == {r \in Rows(tbl) : /\ r.symbol_id = symbol_id
                                  /\ TextLeq(StrfTime(start_date), r.date)
                                  /\ TextLeq(r.date, StrfTime(end_date))}
        row(r) == [date |-> r.date, open |-> r.open, high |-> r.high,
                   low |-> r.low, close |-> r.close, volume |-> r.volume]
        ordered == OrderByDate(sel)
    IN  [i \in DOMAIN ordered |-> row(ordered[i])]

\* ------------------------------------------------------- Trailing Metrics
SeqMax(s, col) == CHOOSE v \in {s[i][col] : i \in DOMAIN s} :
                      \A i \in DOMAIN s : s[i][col] <= v

SeqMin(s, col) == CHOOSE v \in {s[i][col] : i \in DOMAIN s} :
                      \A i \in DOMAIN s : v <= s[i][col]

\* next(row['date'] for row in s if row[col] == v)
FirstDate(s, col, v) ==
    LET i == CHOOSE k \in DOMAIN s : s[k][col] = v /\ \A j \in 1 .. (k - 1) : s[j][col] # v
    IN  s[i].date

\* mutant: p percent of the high instead of the high less p percent
Decrease_Percent(high_52week, p) == high_52week * p

\* threshold price for a decrease of p percent, in hundredths of a cent
Decrease(high_52week, p) == high_52week * (100 - p)

\* result: both metric tables; a sqlite error leaves them as they were
store_52week_metrics(metrics, thresholds, symbol_id, calculation_date, high_52week, low_52week, high_date, low_date) ==
    [metrics |->
        InsertOrReplace(metrics,
            [symbol_id |-> symbol_id, calculation_date |-> StrfTime(calculation_date),
             high_52week |-> high_52week, low_52week |-> low_52week,
             high_date |-> high_date, low_date |-> low_date], MetricsKey),
     thresholds |->
        InsertOrReplace(thresholds,
            [symbol_id |-> symbol_id, calculation_date |-> StrfTime(calculation_date),
             high_52week_price |-> high_52week,
             decrease_10_price |-> Decrease(high_52week, 10),
             decrease_15_price |-> Decrease(high_52week, 15),
             decrease_20_price |-> Decrease(high_52week, 20),
             decrease_25_price |-> Decrease(high_52week, 25),
             decrease_30_price |-> Decrease(high_52week, 30)], MetricsKey)]

\* env = [read_error, store_error]: sqlite errors in get_market_data_range and
\* in store_52week_metrics.  Result: both tables, whether a row was stored,
\* whether the call raised.
calculate_and_store_metrics(tbl, metrics, thresholds, symbol_id, now, env) ==
    LET year_ago == now - TrailingDays
        yearly_data == get_market_data_range(tbl, symbol_id, year_ago, now)
        high_52week == SeqMax(yearly_data, "high")
        low_52week == SeqMin(yearly_data, "low")
        high_date == FirstDate(yearly_data, "high", high_52week)
        low_date == FirstDate(yearly_data, "low", low_52week)
        stored == store_52week_metrics(metrics, thresholds, symbol_id, now,
                                       high_52week, low_52week, high_date, low_date)
        same == [metrics |-> metrics, thresholds |-> thresholds]
    IN  IF env.read_error THEN same @@ [stored |-> FALSE, raised |-> TRUE]
        ELSE IF yearly_data = <<>> THEN same @@ [stored |-> FALSE, raised |-> FALSE]
        ELSE IF env.store_error THEN same @@ [stored |-> FALSE, raised |-> TRUE]
        ELSE stored @@ [stored |-> TRUE, raised |-> FALSE]

\* ------------------------------------------------------------ environment
\* OHLCV values of a bar
BarOk == [Open |-> 4, High |-> 6, Low |-> 2, Close |-> 4, Volume |-> 1]

BarZeroOpen == [Open |-> 0, High |-> 6, Low |-> 0, Close |-> 4, Volume |-> 1]

BarHigh == [Open |-> 5, High |-> 8, Low |-> 4, Close |-> 5, Volume |-> 1]

BarShapes == {BarOk, BarZeroOpen}

Bar(d, shape) == [date |-> d] @@ shape

\* The market history behind the Quote Provider: the bar of a ticker on a day
Market(s, d) ==
    LET k == (s + d) % 3
    IN  Bar(d, IF k = 0 THEN BarZeroOpen ELSE IF k = 1 THEN BarOk ELSE BarHigh)

\* the same bar as a provider glitch delivers it
Glitch(bar) == [bar EXCEPT !.Close = 0 - bar.Close]

\* DataFrames of n rows of the ticker, dated inside from .. to in index order
RECURSIVE HistoryOfLen(_, _, _, _)
HistoryOfLen(s, from, to, n) ==
    IF n = 0 THEN {<<>>}
    ELSE UNION {{Append(f, Market(s, d)), Append(f, Glitch(Market(s, d)))} :
                  f \in HistoryOfLen(s, from, to, n - 1),
                  d \in from .. to}

Sorted(f) == \A i \in 1 .. (Len(f) - 1) : f[i].date < f[i + 1].date

\* symbol.history(start=start_date): a transport error or a DataFrame
QuoteResponses(s, from, to) ==
    {[raises |-> TRUE, df |-> <<>>]}
    \cup {[raises |-> FALSE, df |-> f] :
            f \in {g \in UNION {HistoryOfLen(s, from, to, n) : n \in 0 .. MaxSeriesLen} :
                     Sorted(g)}}

\* the rate of the pair on a day, and the rates a caller may be handed
RateOn(d) == IF d % 2 = 0 THEN <<1, 2>> ELSE <<3, 2>>

RateValues == {<<1, 2>>, <<3, 2>>}

\* ticker.history(start, end + 1 day) of the rate source for from .. to:
\* an error, or rows for some of the days
RateResponses(from, to) ==
    {[raises |-> TRUE, hist |-> <<>>]}
    \cup {[raises |-> FALSE, hist |-> [t \in {StrfTime(d) : d \in D} |-> RateOn(StrpTime(t))]] :
            D \in SUBSET (from .. to)}

\* DataFrames and rate maps handed to the handlers when called directly
RECURSIVE FramesOfLen(_, _, _)
FramesOfLen(from, to, n) ==
    IF n = 0 THEN {<<>>}
    ELSE {Append(f, Bar(d, b)) :
            f \in FramesOfLen(from, to, n - 1), d \in from .. to, b \in BarShapes}

Frames(from, to) == UNION {FramesOfLen(from, to, n) : n \in 0 .. MaxSeriesLen}

SortedFrames(from, to) == {f \in Frames(from, to) : Sorted(f)}

AnyRateResponses(from, to) ==
    {[raises |-> TRUE, hist |-> <<>>]}
    \cup {[raises |-> FALSE, hist |-> h] :
            h \in UNION {[{StrfTime(d) : d \in D} -> RateValues] : D \in SUBSET (from .. to)}}

\* ------------------------------------------------------------------ state
VARIABLES
    today,                  \* datetime.now().date()
    symbols,                \* ids of the rows of symbols with is_active = 1
    etf_data,               \* table etf_data
    currency_rates,         \* table currency_rates
    fifty_two_week_metrics, \* table fifty_two_week_metrics
    decrease_thresholds,    \* table decrease_thresholds
    pc,                     \* position of run_incremental_update
    cycle,                  \* number of cycles started
    queue,                  \* the list returned by get_active_symbols
    idx,                    \* position of the for loop in queue
    results,                \* the results dictionary of the cycle
    returns,                \* what process_symbol_incremental returned, per symbol
    symbol_id,              \* locals of process_symbol_incremental
    latest_date,
    start_date,
    attempt,                \* loop variable of fetch_market_data_with_retry
    df,                     \* the accepted DataFrame
    quote_calls,            \* symbol.history calls made for this symbol
    sleeps,                 \* time.sleep(retry_delay) calls made for this symbol
    last_attempt,           \* "none", "error", "empty", "rejected", "accepted"
    gate_failures,          \* attempts of this symbol the gate rejected
    rate_calls,             \* range requests made by the last insert_market_data
    read_error,             \* the watermark query of this symbol raised
    insert_status,          \* "none", "committed", "raised"
    metrics_status,         \* "none", "stored", "empty", "raised"
    converted,              \* result of the last direct convert_price_data_batch
    last_insert,            \* arguments of the last direct insert_market_data
    repeated,               \* the last direct insert repeated the one before
    calls,                  \* number of direct calls made
    validated,              \* argument and result of the last direct validate_data_quality
    load_pc,                \* load_symbols: 0 when not running, else the next CSV row
    rate_result,            \* arguments and result of the last direct get_exchange_rate
    workflow                \* inputs and result of the last run_full_workflow

tables == <<etf_data, currency_rates, fifty_two_week_metrics, decrease_thresholds>>

locals == <<symbol_id, latest_date, start_date, attempt, df, quote_calls, sleeps,
            last_attempt, gate_failures, rate_calls, read_error, insert_status,
            metrics_status>>

loop == <<pc, cycle, queue, idx, results, returns>>

direct == <<converted, last_insert, repeated, calls>>

extra == <<validated, load_pc, rate_result, workflow>>

vars == <<today, symbols, tables, loop, locals, direct, extra>>

NoResults == [total_symbols |-> 0, successful |-> 0, failed |-> 0, errors |-> <<>>]

NoInsert == [symbol_id |-> 0, data |-> <<>>, currency |-> "None",
             env |-> [yf |-> [raises |-> TRUE, hist |-> <<>>],
                      cache_error |-> FALSE, db_error |-> FALSE],
             raised |-> TRUE, conn |-> "None"]

NoRateResult ==
    [called |-> FALSE, from_currency |-> "None", to_currency |-> "None", target_date |-> NoDate,
     yf |-> [raises |-> TRUE, hist |-> <<>>], read_error |-> FALSE, cache_before |-> EmptyBag,
     cache_after |-> EmptyBag, returned |-> NoRate, asked |-> <<>>, cache_reads |-> 0]

Init ==
    /\ today \in Days
    /\ symbols \in SUBSET SymbolIds
    /\ etf_data = EmptyBag
    /\ currency_rates = EmptyBag
    /\ fifty_two_week_metrics = EmptyBag
    /\ decrease_thresholds = EmptyBag
    /\ pc = "idle"
    /\ cycle = 0
    /\ queue = <<>>
    /\ idx = 0
    /\ results = NoResults
    /\ returns = [s \in SymbolIds |-> "none"]
    /\ symbol_id = 0
    /\ latest_date = NoDate
    /\ start_date = NoDate
    /\ last_attempt = "none"
    /\ gate_failures = 0
    /\ attempt = 0
    /\ df = <<>>
    /\ quote_calls = 0
    /\ sleeps = 0
    /\ rate_calls = <<>>
    /\ read_error = FALSE
    /\ insert_status = "none"
    /\ metrics_status = "none"
    /\ converted = [from_currency |-> "None", price_data |-> <<>>, data |-> <<>>,
                    rates |-> <<>>]
    /\ last_insert = NoInsert
    /\ repeated = FALSE
    /\ calls = 0
    /\ validated = [called |-> FALSE, df |-> <<>>, is_valid |-> FALSE, issues |-> <<>>]
    /\ load_pc = 0
    /\ rate_result = NoRateResult
    /\ workflow = [called |-> FALSE]

\* ------------------------------------------------- run_incremental_update
\* get_active_symbols: ORDER BY name, which is the order of the ids here
RECURSIVE ActiveList(_)
ActiveList(S) ==
    IF S = {} THEN <<>>
    ELSE LET m == CHOOSE x \in S : \A y \in S : x <= y
         IN  <<m>> \o ActiveList(S \ {m})

sym == queue[idx]

\* line 198: latest_date + timedelta(days=1)
StartAfter(latest) == latest + 1

\* line 203: start_date > today
UpToDate(start, now) == start > now

\* mutant: the last attempt also sleeps
AttemptsRemain_Always(n) == n < max_retries

\* lines 148 and 166: attempt < self.max_retries - 1
AttemptsRemain(n) == n < max_retries - 1

\* mutant: only sqlite errors are not caught any more
CaughtByProcess_Not == FALSE

\* line 226: "except Exception" around the body of process_symbol_incremental
CaughtByProcess == TRUE

\* line 327: "except Exception" around the body of run_incremental_update
RunCatches == TRUE

\* mutant: every outcome is counted as a success
Tally_Success(success) ==
    /\ results' = [results EXCEPT !.successful = @ + 1]
    /\ returns' = [returns EXCEPT ![sym] = "True"]
    /\ idx' = idx + 1
    /\ pc' = IF idx = Len(queue) THEN "returned" ELSE "process"
    /\ UNCHANGED <<cycle, queue>>

\* lines 303-308: count the outcome, then the next symbol or the return
Tally(success) ==
    /\ results' = IF success
                  THEN [results EXCEPT !.successful = @ + 1]
                  ELSE [results EXCEPT !.failed = @ + 1,
                                       !.errors = Append(@, <<"failed", sym>>)]
    /\ returns' = [returns EXCEPT ![sym] = IF success THEN "True" ELSE "False"]
    /\ idx' = idx + 1
    /\ pc' = IF idx = Len(queue) THEN "returned" ELSE "process"
    /\ UNCHANGED <<cycle, queue>>

\* lines 327-331: an exception that reaches run_incremental_update
Critical(res) ==
    /\ results' = [res EXCEPT !.errors = Append(@, <<"critical", 0>>)]
    /\ pc' = IF RunCatches THEN "returned" ELSE "raised"

\* an exception inside process_symbol_incremental: lines 226-228
Raise ==
    IF CaughtByProcess THEN Tally(FALSE)
    ELSE Critical(results) /\ UNCHANGED <<cycle, queue, idx, returns>>

Continue(next) ==
    /\ pc' = next
    /\ UNCHANGED <<cycle, queue, idx, results, returns>>

\* lines 282-299 and 327-331
StartCycle ==
    /\ pc \in {"idle", "returned"}
    /\ cycle < MaxCycles
    /\ \E db_error \in BOOLEAN :
         /\ cycle' = cycle + 1
         /\ returns' = [s \in SymbolIds |-> "none"]
         /\ queue' = IF db_error THEN <<>> ELSE ActiveList(symbols)
         /\ idx' = IF db_error \/ symbols = {} THEN 0 ELSE 1
         /\ IF db_error
            THEN Critical(NoResults)
            ELSE IF symbols = {}
            THEN /\ results' = [NoResults EXCEPT !.errors = << <<"no_active", 0>> >>]
                 /\ pc' = "returned"
            ELSE /\ results' = [NoResults EXCEPT !.total_symbols = Cardinality(symbols)]
                 /\ pc' = "process"
    /\ UNCHANGED <<extra, today, symbols, tables, locals, direct>>

\* process_symbol_incremental, lines 185-209
ProcessSymbol ==
    /\ pc = "process"
    /\ \E db_error \in BOOLEAN :
         LET latest == get_latest_data_date(etf_data, sym, db_error)
             start == IF latest # NoDate THEN StartAfter(latest) ELSE EpochStart
         IN  /\ read_error' = db_error
             /\ latest_date' = latest
             /\ start_date' = start
             /\ IF latest # NoDate /\ UpToDate(start, today)
                THEN Tally(TRUE)
                ELSE Continue("fetch")
    /\ symbol_id' = sym
    /\ attempt' = 0 /\ df' = <<>> /\ quote_calls' = 0 /\ sleeps' = 0
    /\ last_attempt' = "none" /\ gate_failures' = 0
    /\ rate_calls' = <<>> /\ insert_status' = "none" /\ metrics_status' = "none"
    /\ UNCHANGED <<extra, today, symbols, tables, direct>>

\* mutant: the verdict of the gate is ignored
AttemptOutcome_NoGate(resp) ==
    IF resp.raises THEN "error" ELSE IF resp.df = <<>> THEN "empty" ELSE "accepted"

\* what one attempt of fetch_market_data_with_retry saw, lines 138-147, 164
AttemptOutcome(resp) ==
    IF resp.raises THEN "error"
    ELSE IF resp.df = <<>> THEN "empty"
    ELSE IF ~validate_data_quality(resp.df).is_valid THEN "rejected"
    ELSE "accepted"

\* one iteration of the loop of fetch_market_data_with_retry, lines 133-173
FetchAttempt ==
    /\ pc = "fetch"
    /\ \E resp \in QuoteResponses(sym, start_date, today) :
         LET outcome == AttemptOutcome(resp)
         IN  /\ quote_calls' = quote_calls + 1
             /\ last_attempt' = outcome
             /\ gate_failures' = IF outcome = "rejected"
                                 THEN gate_failures + 1 ELSE gate_failures
             /\ IF outcome = "accepted"
                THEN /\ df' = resp.df /\ Continue("insert")
                     /\ UNCHANGED <<attempt, sleeps>>
                ELSE IF outcome = "empty"
                THEN /\ Tally(FALSE) /\ UNCHANGED <<attempt, sleeps, df>>
                ELSE IF AttemptsRemain(attempt)
                THEN /\ sleeps' = sleeps + 1 /\ attempt' = attempt + 1
                     /\ UNCHANGED df
                     /\ IF attempt + 1 < max_retries
                        THEN Continue("fetch") ELSE Tally(FALSE)
                ELSE /\ Tally(FALSE) /\ UNCHANGED <<attempt, sleeps, df>>
    /\ UNCHANGED <<extra, today, symbols, tables, direct>>
    /\ UNCHANGED <<symbol_id, latest_date, start_date, rate_calls, read_error,
                   insert_status, metrics_status>>

InsertEnvs(data, currency, any) ==
    IF currency = "EUR" \/ currency = "None" \/ data = <<>>
    THEN {[yf |-> [raises |-> TRUE, hist |-> <<>>], cache_error |-> FALSE, db_error |-> e] :
            e \in BOOLEAN}
    ELSE LET dates == {data[i].date : i \in DOMAIN data}
             lo == CHOOSE d \in dates : \A x \in dates : d <= x
             hi == CHOOSE d \in dates : \A x \in dates : x <= d
             responses == IF any THEN AnyRateResponses(lo, hi) ELSE RateResponses(lo, hi)
         IN  [yf : responses, cache_error : BOOLEAN, db_error : BOOLEAN]

\* process_symbol_incremental, lines 217-219 with the except of 226-228
InsertStep ==
    /\ pc = "insert"
    /\ \E env \in InsertEnvs(df, SymbolCurrency(sym), FALSE) :
         LET r == insert_market_data(etf_data, currency_rates, sym, df,
                                     SymbolCurrency(sym), env)
         IN  /\ etf_data' = r.etf_data
             /\ currency_rates' = r.currency_rates
             /\ rate_calls' = r.calls
             /\ insert_status' = IF r.raised THEN "raised" ELSE "committed"
             /\ IF r.raised THEN Raise ELSE Continue("metrics")
    /\ UNCHANGED <<extra, today, symbols, fifty_two_week_metrics, decrease_thresholds, direct>>
    /\ UNCHANGED <<symbol_id, latest_date, start_date, attempt, df, quote_calls, sleeps,
                   last_attempt, gate_failures, read_error, metrics_status>>

\* process_symbol_incremental, lines 221-224 with the except of 226-228
MetricsStep ==
    /\ pc = "metrics"
    /\ \E env \in [read_error : BOOLEAN, store_error : BOOLEAN] :
         LET r == calculate_and_store_metrics(etf_data, fifty_two_week_metrics,
                                              decrease_thresholds, sym, today, env)
         IN  /\ fifty_two_week_metrics' = r.metrics
             /\ decrease_thresholds' = r.thresholds
             /\ metrics_status' = IF r.raised THEN "raised"
                                  ELSE IF r.stored THEN "stored" ELSE "empty"
             /\ IF r.raised THEN Raise ELSE Tally(TRUE)
    /\ UNCHANGED <<extra, today, symbols, etf_data, currency_rates, direct>>
    /\ UNCHANGED <<symbol_id, latest_date, start_date, attempt, df, quote_calls, sleeps,
                   last_attempt, gate_failures, rate_calls, read_error, insert_status>>

\* the local clock reaches the next day between two cycles
Tick ==
    /\ pc \in {"idle", "returned"}
    /\ today + 1 \in Days
    /\ today' = today + 1
    /\ UNCHANGED <<symbols, tables, loop, locals, direct, extra>>

Next == StartCycle \/ ProcessSymbol \/ FetchAttempt \/ InsertStep \/ MetricsStep \/ Tick

Spec == Init /\ [][Next]_vars

\* ------------------------------------------- the handlers called directly
FirstDay == CHOOSE d \in Days : \A x \in Days : d <= x

LastDay == CHOOSE d \in Days : \A x \in Days : x <= d

InitDirect == Init /\ today = FirstDay /\ symbols = SymbolIds

DirectInsertEnvs(data, currency) ==
    {e \in InsertEnvs(data, currency, TRUE) : ~e.cache_error}

\* DatabaseManager.insert_market_data(symbol_id, data, currency), called with
\* the currency of the symbol or, as market_data_fetcher.py does, without one
DirectInsert ==
    /\ calls < MaxCalls
    /\ \E s \in SymbolIds, data \in SortedFrames(FirstDay, LastDay) \ {<<>>} :
         \E currency \in {SymbolCurrency(s), "None"} :
            \E env \in DirectInsertEnvs(data, currency) :
               LET r == insert_market_data(etf_data, currency_rates, s, data, currency, env)
               IN  /\ etf_data' = r.etf_data
                   /\ currency_rates' = r.currency_rates
                   /\ rate_calls' = r.calls
                   /\ last_insert' = [symbol_id |-> s, data |-> data, currency |-> currency,
                                      env |-> env, raised |-> r.raised,
                                      conn |-> r.conn]
    /\ repeated' = FALSE
    /\ calls' = calls + 1
    /\ UNCHANGED <<extra, today, symbols, fifty_two_week_metrics, decrease_thresholds, loop>>
    /\ UNCHANGED <<symbol_id, latest_date, start_date, attempt, df, quote_calls, sleeps,
                   last_attempt, gate_failures, read_error, insert_status, metrics_status,
                   converted>>

\* the caller runs the upsert it just committed once more: same symbol, same
\* DataFrame, same currency, and the rate source and sqlite answer as before
RepeatInsert ==
    /\ ~last_insert.raised
    /\ ~repeated
    /\ LET r == insert_market_data(etf_data, currency_rates, last_insert.symbol_id,
                                   last_insert.data, last_insert.currency, last_insert.env)
       IN  /\ etf_data' = r.etf_data
           /\ currency_rates' = r.currency_rates
           /\ rate_calls' = r.calls
    /\ repeated' = TRUE
    /\ UNCHANGED <<extra, today, symbols, fifty_two_week_metrics, decrease_thresholds, loop>>
    /\ UNCHANGED <<symbol_id, latest_date, start_date, attempt, df, quote_calls, sleeps,
                   last_attempt, gate_failures, read_error, insert_status, metrics_status,
                   converted, last_insert, calls>>

NextUpsert == DirectInsert \/ RepeatInsert

SpecUpsert == InitDirect /\ [][NextUpsert]_vars

\* CurrencyConverter.convert_price_data_batch(price_data, from_currency)
DirectConvert ==
    /\ calls < MaxCalls
    /\ \E f \in Frames(FirstDay, LastDay), from_currency \in {"USD", "EUR", "CHF"} :
         \E env \in InsertEnvs(f, from_currency, FALSE) :
            LET price_data == [i \in DOMAIN f |-> PriceRecord(f[i])]
                r == convert_price_data_batch(price_data, from_currency, currency_rates,
                                              env.yf, env.cache_error)
            IN  /\ ~env.db_error
                /\ converted' = [from_currency |-> from_currency, price_data |-> price_data,
                                 data |-> r.data, rates |-> r.rates]
                /\ currency_rates' = r.cache
                /\ rate_calls' = r.calls
    /\ calls' = calls + 1
    /\ UNCHANGED <<extra, today, symbols, etf_data, fifty_two_week_metrics, decrease_thresholds,
                   loop>>
    /\ UNCHANGED <<symbol_id, latest_date, start_date, attempt, df, quote_calls, sleeps,
                   last_attempt, gate_failures, read_error, insert_status, metrics_status,
                   last_insert, repeated>>

NextConvert == DirectConvert

SpecConvert == InitDirect /\ [][NextConvert]_vars

\* CurrencyConverter.convert_price_data_batch(price_data, from_currency) with
\* records as any caller may build them: a price may be text
DirectConvertRaw ==
    /\ calls < MaxCalls
    /\ \E f \in Frames(FirstDay, LastDay) \ {<<>>}, from_currency \in {"USD"},
          text \in {{}, {1}} :
         \E env \in InsertEnvs(f, from_currency, FALSE) :
            LET price_data == [i \in DOMAIN f |->
                                 IF i \in text
                                 THEN [open |-> TextPrice] @@ PriceRecord(f[i])
                                 ELSE PriceRecord(f[i])]
                r == convert_price_data_batch(price_data, from_currency, currency_rates,
                                              env.yf, env.cache_error)
            IN  /\ ~env.db_error
                /\ converted' = [from_currency |-> from_currency, price_data |-> price_data,
                                 data |-> r.data, rates |-> r.rates, raised |-> r.raised,
                                 cache_error |-> env.cache_error]
                /\ currency_rates' = r.cache
                /\ rate_calls' = r.calls
    /\ calls' = calls + 1
    /\ UNCHANGED <<extra, today, symbols, etf_data, fifty_two_week_metrics, decrease_thresholds,
                   loop>>
    /\ UNCHANGED <<symbol_id, latest_date, start_date, attempt, df, quote_calls, sleeps,
                   last_attempt, gate_failures, read_error, insert_status, metrics_status,
                   last_insert, repeated>>

NextConvertRaw == DirectConvertRaw

SpecConvertRaw == InitDirect /\ [][NextConvertRaw]_vars

\* CurrencyConverter.get_exchange_rate(from_currency, to_currency, target_date)
DirectRate ==
    /\ calls < MaxCalls
    /\ \E from_currency \in {"USD", "GBP", "EUR"}, to_currency \in {"EUR", "USD"},
          target_date \in Days, read_fails \in BOOLEAN, store_fails \in BOOLEAN :
         \E yf \in AnyRateResponses(target_date, target_date) :
            LET r == get_exchange_rate(currency_rates, from_currency, to_currency, target_date,
                                       yf, read_fails, store_fails)
            IN  /\ rate_result' = [called |-> TRUE, from_currency |-> from_currency,
                                   to_currency |-> to_currency, target_date |-> target_date,
                                   yf |-> yf, read_error |-> read_fails,
                                   cache_before |-> currency_rates,
                                   cache_after |-> r.cache,
                                   returned |-> r.returned, asked |-> r.asked,
                                   cache_reads |-> r.cache_reads]
                /\ currency_rates' = r.cache
    /\ calls' = calls + 1
    /\ UNCHANGED <<validated, load_pc, workflow, today, symbols, etf_data,
                   fifty_two_week_metrics, decrease_thresholds, loop, locals, converted,
                   last_insert, repeated>>

\* CurrencyConverter.store_exchange_rates(from_currency, 'EUR', rates)
DirectStore ==
    /\ calls < MaxCalls
    /\ \E from_currency \in {"USD", "GBP"}, sqlite_error \in BOOLEAN :
         \E yf \in AnyRateResponses(FirstDay, LastDay) :
            currency_rates' = store_exchange_rates(currency_rates, from_currency, "EUR",
                                                   yf.hist, sqlite_error)
    /\ calls' = calls + 1
    /\ UNCHANGED <<extra, today, symbols, etf_data, fifty_two_week_metrics,
                   decrease_thresholds, loop, locals, converted, last_insert, repeated>>

NextRate == DirectRate \/ DirectStore

SpecRate == InitDirect /\ [][NextRate]_vars

\* ------------------------------------------- the gate called directly
\* rows a provider may deliver: nulls, negative prices, zero and large moves
\* of the close, zero volume
GateRows ==
    [Open : {4, NULL}, High : {8}, Low : {2, 0 - 2},
     Close : {0 - 4, 0, 4, 6, 7, NULL}, Volume : {0, 1, NULL}]

GateFrames ==
    UNION {{[i \in 1 .. n |-> [date |-> EpochStart + i - 1] @@ f[i]] : f \in [1 .. n -> GateRows]} :
             n \in 0 .. MaxSeriesLen}

\* EnhancedMarketDataFetcher.validate_data_quality(df, symbol_name)
DirectValidate ==
    /\ ~validated.called
    /\ \E f \in GateFrames :
         validated' = [called |-> TRUE, df |-> f] @@ validate_data_quality(f)
    /\ UNCHANGED <<today, symbols, tables, loop, locals, direct, load_pc, rate_result, workflow>>

NextGate == DirectValidate

SpecGate == InitDirect /\ [][NextGate]_vars

\* ------------------------------------------- reference-data reload
\* the rows of symbols.csv, in file order: one per instrument
CsvRows == ActiveList(SymbolIds)

\* load_symbols, lines 93-101: clear_symbols deletes every row of symbols and
\* commits; when it raises, load_symbols returns and nothing has changed
LoadClear ==
    /\ pc \in {"idle", "returned"}
    /\ load_pc = 0
    /\ symbols' = {}
    /\ load_pc' = 1
    /\ UNCHANGED <<today, tables, loop, locals, direct, validated, rate_result, workflow>>

\* load_symbols, lines 105-113: add_symbol inserts the next CSV row and
\* commits; the row gets the id of its position, as the rowid of an emptied
\* table starts again at 1
LoadAdd ==
    /\ load_pc \in DOMAIN CsvRows
    /\ symbols' = symbols \cup {CsvRows[load_pc]}
    /\ load_pc' = IF load_pc = Len(CsvRows) THEN 0 ELSE load_pc + 1
    /\ UNCHANGED <<today, tables, loop, locals, direct, validated, rate_result, workflow>>

\* run_full_workflow: the reload (step 1) and the cycle (step 2) never overlap
WorkflowCycle == load_pc = 0 /\ Next

NextWorkflow == WorkflowCycle \/ LoadClear \/ LoadAdd

SpecWorkflow == InitDirect /\ [][NextWorkflow]_vars

\* ------------------------------------------------- a cycle that is killed
\* what the Quote Provider holds for the ticker from start to now
FullHistory(s, from, to) == [i \in 1 .. (to - from + 1) |-> Market(s, from + i - 1)]

\* the rate source answers with every day of the batch and sqlite works
NominalEnv(data, currency) ==
    IF currency = "EUR" \/ currency = "None" \/ data = <<>>
    THEN [yf |-> [raises |-> TRUE, hist |-> <<>>], cache_error |-> FALSE, db_error |-> FALSE]
    ELSE LET dates == {data[i].date : i \in DOMAIN data}
         IN  [yf |-> [raises |-> FALSE,
                      hist |-> [t \in {StrfTime(d) : d \in dates} |-> RateOn(StrpTime(t))]],
              cache_error |-> FALSE, db_error |-> FALSE]

\* no query fails, both providers answer in full, and the day does not change
Nominal ==
    /\ today' = today
    /\ results'.failed = 0
    /\ \A i \in DOMAIN results'.errors : results'.errors[i][1] # "critical"
    /\ ~read_error'
    /\ pc = "fetch" => /\ last_attempt' = "accepted"
                       /\ df' = FullHistory(sym, start_date, today)
    /\ pc = "insert" =>
          LET r == insert_market_data(etf_data, currency_rates, sym, df, SymbolCurrency(sym),
                                      NominalEnv(df, SymbolCurrency(sym)))
          IN  etf_data' = r.etf_data /\ currency_rates' = r.currency_rates
    /\ metrics_status' # "raised"

NominalCycle == Next /\ Nominal

\* the process is killed inside process_symbol_incremental; what was
\* committed stays, and the next start begins with run_incremental_update
Kill ==
    /\ pc \in {"process", "fetch", "insert", "metrics"}
    /\ pc' = "idle"
    /\ UNCHANGED <<cycle, queue, idx, results, returns>>
    /\ UNCHANGED <<today, symbols, tables, locals, direct, extra>>

NextCrash == NominalCycle \/ Kill

SpecCrash == Init /\ [][NextCrash]_vars

\* process_symbol_incremental run to its end on the stores st with every
\* call succeeding
ProcessUninterrupted(st, s, now) ==
    LET latest == get_latest_data_date(st.etf_data, s, FALSE)
        start == IF latest # NoDate THEN StartAfter(latest) ELSE EpochStart
        data == FullHistory(s, start, now)
        ins == insert_market_data(st.etf_data, st.currency_rates, s, data, SymbolCurrency(s),
                                  NominalEnv(data, SymbolCurrency(s)))
        met == calculate_and_store_metrics(ins.etf_data, st.fifty_two_week_metrics,
                                           st.decrease_thresholds, s, now,
                                           [read_error |-> FALSE, store_error |-> FALSE])
    IN  IF latest # NoDate /\ UpToDate(start, now) THEN st
        ELSE [etf_data |-> ins.etf_data, currency_rates |-> ins.currency_rates,
              fifty_two_week_metrics |-> met.metrics, decrease_thresholds |-> met.thresholds]

\* the loop of run_incremental_update over the symbols list[i .. ]
RECURSIVE CycleUninterrupted(_, _, _, _)
CycleUninterrupted(st, list, i, now) ==
    IF i > Len(list) THEN st
    ELSE CycleUninterrupted(ProcessUninterrupted(st, list[i], now), list, i + 1, now)

EmptyStores ==
    [etf_data |-> EmptyBag, currency_rates |-> EmptyBag,
     fifty_two_week_metrics |-> EmptyBag, decrease_thresholds |-> EmptyBag]

Stores ==
    [etf_data |-> etf_data, currency_rates |-> currency_rates,
     fifty_two_week_metrics |-> fifty_two_week_metrics,
     decrease_thresholds |-> decrease_thresholds]

\* ================================================================ claims
\* the maximum bar date stored for a symbol, NoDate when it has no bar
Watermark(tbl, s) ==
    LET ds == {StrpTime(r.date) : r \in {x \in Rows(tbl) : x.symbol_id = s}}
    IN  IF ds = {} THEN NoDate ELSE CHOOSE d \in ds : \A x \in ds : x <= d

\* number of rows stored for a symbol, duplicates counted
RowCount(tbl, s) ==
    BagCardinality([r \in {x \in DOMAIN tbl : x.symbol_id = s} |-> tbl[r]])

\* C1: running insert_market_data a second time for the same instrument with
\* the same DataFrame, the same currency and the same Rate Provider answer
\* leaves etf_data exactly as the first run left it: no row is added and no
\* stored value changes.
C1_IdempotentUpsert == [][(repeated' /\ ~repeated) => etf_data' = etf_data]_vars

\* the second run has happened on a converted two-bar series, next to rows of
\* another instrument
C1_Witness ==
    /\ repeated
    /\ last_insert.currency = "USD"
    /\ Len(last_insert.data) = 2
    /\ \E r \in Rows(etf_data) : r.symbol_id = last_insert.symbol_id /\ r.close_eur # NULL
    /\ \E r \in Rows(etf_data) : r.symbol_id # last_insert.symbol_id

\* C2: no step of a cycle lowers the watermark (the maximum stored bar date)
\* of any instrument, and whenever the instrument that
\* process_symbol_incremental starts on has a watermark, the fetch start date
\* it computes is the watermark plus one day.
C2_WatermarkMonotone ==
    [][/\ \A s \in SymbolIds : Watermark(etf_data', s) >= Watermark(etf_data, s)
       /\ (pc = "process" /\ Watermark(etf_data, sym) # NoDate)
             => start_date' = Watermark(etf_data, sym) + 1]_vars

\* C3: a series that the Data Quality Gate rejects is never written, whole or
\* in part: only the upsert step writes etf_data, that step is reached only
\* with a series the gate accepted, and when the gate has rejected the series
\* on every attempt the fetch yields no series, insert_market_data is not
\* called, the instrument is reported failed and no rejected bar is stored.
C3_GateRejectsWholeSeries ==
    [][/\ pc # "insert" => etf_data' = etf_data
       /\ pc' = "insert" => validate_data_quality(df').is_valid
       /\ gate_failures' = max_retries =>
             /\ df' = <<>>
             /\ insert_status' = "none"
             /\ pc' \notin {"insert", "metrics"}
             /\ returns'[symbol_id'] \in {"False", "none"}
             /\ pc = "fetch" => returns'[symbol_id'] = "False"
       /\ \A r \in Rows(etf_data') : r.close >= 0]_vars

\* the gate has rejected all three attempts of an instrument
C3_Witness ==
    /\ gate_failures = max_retries
    /\ quote_calls = max_retries
    /\ returns[symbol_id] = "False"
    /\ insert_status = "none"

\* the symbols of the queue that process_symbol_incremental reported failed
FailedSymbols == SelectSeq(queue, LAMBDA s : returns[s] = "False")

\* C4: run_incremental_update never raises for a failure of one instrument;
\* when it returns after a loop over the active instruments, every one of
\* them has been processed, total_symbols = successful + failed, and errors
\* holds exactly one message per failed instrument.
C4_PartialFailureAccounting ==
    /\ pc # "raised"
    /\ pc = "returned" =>
          results.total_symbols = results.successful + results.failed
    /\ (pc = "returned" /\ queue # <<>>) =>
          /\ Range(queue) = symbols
          /\ \A i \in DOMAIN queue : returns[queue[i]] \in {"True", "False"}
          /\ results.total_symbols = Len(queue)
          /\ results.failed = Len(FailedSymbols)
          /\ results.errors = [i \in DOMAIN FailedSymbols |-> <<"failed", FailedSymbols[i]>>]

\* the first instrument failed and the second one was still processed
C4_Witness ==
    /\ pc = "returned"
    /\ Len(queue) = 2
    /\ returns[queue[1]] = "False"
    /\ returns[queue[2]] = "True"
    /\ results.errors = << <<"failed", queue[1]>> >>
    /\ metrics_status = "stored"

\* C5: every bar stored for an instrument quoted in EUR has its four EUR
\* fields equal to its four source fields, and the upsert of such an
\* instrument makes no Rate Provider call.
C5_SameCurrencyIdentity ==
    /\ \A r \in Rows(etf_data) :
          SymbolCurrency(r.symbol_id) = "EUR" =>
              /\ r.open_eur = r.open /\ r.high_eur = r.high
              /\ r.low_eur = r.low /\ r.close_eur = r.close
    /\ (symbol_id # 0 /\ SymbolCurrency(symbol_id) = "EUR") => rate_calls = <<>>

\* C6: the four EUR fields of every stored bar are all null or all non-null.
C6_AllOrNone ==
    \A r \in Rows(etf_data) :
        \/ r.open_eur = NULL /\ r.high_eur = NULL /\ r.low_eur = NULL /\ r.close_eur = NULL
        \/ r.open_eur # NULL /\ r.high_eur # NULL /\ r.low_eur # NULL /\ r.close_eur # NULL

BatchDays(price_data) == {StrpTime(price_data[i].date) : i \in DOMAIN price_data}

\* C7: convert_price_data_batch on a non-empty batch of dated records in a
\* currency other than EUR makes exactly one range request to the Rate
\* Provider, from the earliest to the latest date of the batch.
C7_OneRangeCall ==
    (converted.from_currency \notin {"EUR", "None"} /\ converted.price_data # <<>>) =>
        LET days == BatchDays(converted.price_data)
        IN  rate_calls = << [from_currency |-> converted.from_currency,
                             to_currency |-> "EUR",
                             start_date |-> CHOOSE d \in days : \A x \in days : d <= x,
                             end_date |-> CHOOSE d \in days : \A x \in days : x <= d] >>

\* a two-record batch whose dates differ and are not in order
C7_Witness ==
    /\ converted.from_currency = "USD"
    /\ Len(converted.price_data) = 2
    /\ StrpTime(converted.price_data[1].date) > StrpTime(converted.price_data[2].date)
    /\ Len(rate_calls) = 1
    /\ converted.data[1].close_eur # NULL

\* C8: when process_symbol_incremental finds a stored bar dated today, the
\* start date is tomorrow, no Quote Provider call is made, and the Trailing
\* Metrics are recomputed and stored before success is reported.
C8_SkipStillRecomputes ==
    latest_date = today =>
        /\ start_date = today + 1
        /\ quote_calls = 0
        /\ returns[symbol_id] = "True" => metrics_status = "stored"

\* C9: for an instrument without a stored bar the fetch starts at the epoch;
\* once the N accepted bars are committed, etf_data holds exactly N rows of
\* the instrument, its watermark is the latest of their dates, and the start
\* date computed from that watermark is the day after.
C9_FirstBackfill ==
    (symbol_id # 0 /\ latest_date = NoDate /\ ~read_error) =>
        /\ start_date = EpochStart
        /\ insert_status = "committed" =>
              /\ RowCount(etf_data, symbol_id) = Len(df)
              /\ Watermark(etf_data, symbol_id) = df[Len(df)].date
              /\ StartAfter(get_latest_data_date(etf_data, symbol_id, FALSE))
                    = df[Len(df)].date + 1

\* a first backfill of two bars has been committed
C9_Witness ==
    /\ symbol_id # 0
    /\ latest_date = NoDate
    /\ ~read_error
    /\ insert_status = "committed"
    /\ Len(df) = 2

\* C10: fetch_market_data_with_retry calls the Quote Provider at most
\* max_retries times for one instrument; an attempt that raises or whose
\* series the gate rejects is followed by one delay and another attempt while
\* attempts remain, and the last attempt is followed by no delay and by the
\* instrument being reported failed.
C10_BoundedRetry ==
    [][pc = "fetch" =>
          /\ quote_calls' = quote_calls + 1
          /\ quote_calls' <= max_retries
          /\ (last_attempt' \in {"error", "rejected"} /\ quote_calls' < max_retries) =>
                /\ sleeps' = sleeps + 1
                /\ pc' = "fetch"
          /\ (last_attempt' \in {"error", "rejected"} /\ quote_calls' = max_retries) =>
                /\ sleeps' = sleeps
                /\ sleeps' = max_retries - 1
                /\ pc' \in {"process", "returned"}
                /\ returns'[symbol_id] = "False"]_vars

\* three attempts failed, two delays were taken, the instrument is failed
C10_Witness ==
    /\ quote_calls = max_retries
    /\ sleeps = max_retries - 1
    /\ last_attempt = "error"
    /\ gate_failures = 1
    /\ returns[symbol_id] = "False"

\* C11: an attempt of fetch_market_data_with_retry that returns an empty
\* series while attempts remain is followed by the delay and another attempt,
\* as an attempt that raises is.
C11_EmptyRetried ==
    [][(pc = "fetch" /\ last_attempt' = "empty" /\ quote_calls' < max_retries) =>
          /\ pc' = "fetch"
          /\ sleeps' = sleeps + 1]_vars

\* ------------------------------------------ EnhancedWorkflowOrchestrator
\* run_market_data_fetch, lines 113-133, on the result of the cycle; the
\* cycle never raises (RunCatches)
run_market_data_fetch(res) ==
    [raised |-> ~RunCatches,
     result |-> IF res.total_symbols = 0 THEN FALSE
                ELSE IF res.failed > 0 THEN res.successful > 0
                ELSE TRUE]

\* run_step, lines 72-97: the recorded step and the value returned
run_step(step) ==
    [success |-> ~step.raised]

\* run_incremental_update of the orchestrator, lines 253-271
orchestrator_run_incremental_update(res) ==
    LET step == run_step(run_market_data_fetch(res))
        overall_success == step.success
    IN  [steps |-> [market_data_fetch |-> step],
         returned |-> IF ~step.success THEN FALSE ELSE overall_success]

\* C12: the orchestrator's incremental run reports a cycle in which some
\* instrument failed as succeeded only if an instrument succeeded, and a cycle
\* that attempted instruments of which none succeeded as failed: it returns
\* False and records the step with success = False.
C12_CycleVerdict ==
    pc = "returned" =>
        LET out == orchestrator_run_incremental_update(results)
        IN  /\ (results.failed > 0 /\ out.returned) => results.successful > 0
            /\ (results.total_symbols > 0 /\ results.successful = 0) =>
                  /\ ~out.returned
                  /\ ~out.steps.market_data_fetch.success

\* C13: when get_active_symbols raises, run_incremental_update raises to its
\* caller instead of returning a result.
C13_ActiveQueryFailureRaises ==
    [][(cycle' # cycle /\ \E i \in DOMAIN results'.errors : results'.errors[i][1] = "critical")
          => pc' = "raised"]_vars

\* C14: a sqlite failure of the watermark query or of the upsert of one
\* instrument ends the cycle: no further step of any instrument is taken and
\* the failure is not counted as a failure of that instrument.
C14_PersistenceFailureFatal ==
    [][((pc = "process" /\ read_error') \/ (pc = "insert" /\ insert_status' = "raised")) =>
          /\ pc' \in {"raised", "returned"}
          /\ results'.failed = results.failed]_vars

\* C19: in every state, also during and after a reload of the reference data
\* by load_symbols, the instrument id of every stored bar is the id of an
\* existing row of symbols.
C19_NoOrphanBars ==
    \A r \in Rows(etf_data) : r.symbol_id \in symbols

HasNull(f) == \E i \in DOMAIN f : \E k \in DOMAIN Columns : f[i][Columns[k]] = NULL

HasNegative(f) ==
    \E i \in DOMAIN f : \E k \in DOMAIN PriceColumns :
        f[i][PriceColumns[k]] # NULL /\ f[i][PriceColumns[k]] < 0

\* a close that differs from the close of the day before by more than half of
\* that close (any change from a close of 0 counts)
HasExtreme(f) ==
    \E i \in 2 .. Len(f) :
        LET prev == f[i - 1].Close
            cur == f[i].Close
        IN  /\ prev # NULL /\ cur # NULL
            /\ \/ prev = 0 /\ cur # 0
               \/ prev # 0 /\ 2 * Abs(cur - prev) > Abs(prev)

MostlyZeroVolume(f) == 2 * Cardinality({i \in DOMAIN f : f[i].Volume = 0}) > Len(f)

IssueKinds(issues) == {issues[i][1] : i \in DOMAIN issues}

\* C20: validate_data_quality passes exactly the non-empty series without a
\* null, without a negative price, without a close change above 50% and with
\* at most half of the bars at zero volume; the empty series fails with exactly
\* one issue; for a non-empty series every violated check has its issue in the
\* list, whatever the other checks found.
C20_GateVerdict ==
    validated.called =>
        LET f == validated.df
            kinds == IssueKinds(validated.issues)
        IN  /\ validated.is_valid <=>
                  /\ f # <<>>
                  /\ ~HasNull(f) /\ ~HasNegative(f) /\ ~HasExtreme(f) /\ ~MostlyZeroVolume(f)
            /\ f = <<>> => validated.issues = << <<"empty", "", 0>> >>
            /\ f # <<>> =>
                  /\ HasNull(f) <=> "missing" \in kinds
                  /\ HasNegative(f) <=> "negative" \in kinds
                  /\ HasExtreme(f) => "extreme" \in kinds
                  /\ "extreme" \in kinds => HasExtreme(f) \/ HasNull(f)
                  /\ MostlyZeroVolume(f) <=> "zero_volume" \in kinds
                  /\ "empty" \notin kinds

\* a series that violates all four checks at once got all four kinds of issue
C20_Witness ==
    /\ validated.called
    /\ Len(validated.df) = 2
    /\ ~validated.is_valid
    /\ IssueKinds(validated.issues) = {"missing", "negative", "extreme", "zero_volume"}

SameMetricsKey(a, b) == \A c \in MetricsKey : a[c] = b[c]

\* C15: every row of decrease_thresholds holds H*0.9, H*0.85, H*0.8, H*0.75
\* and H*0.7 of its own trailing high H (prices in cents, thresholds in
\* hundredths of a cent), and a row of fifty_two_week_metrics and the row of
\* decrease_thresholds with the same (instrument, calculation date) exist
\* together and carry the same H.
C15_ThresholdDerivation ==
    /\ \A t \in Rows(decrease_thresholds) :
          /\ t.decrease_10_price = 90 * t.high_52week_price
          /\ t.decrease_15_price = 85 * t.high_52week_price
          /\ t.decrease_20_price = 80 * t.high_52week_price
          /\ t.decrease_25_price = 75 * t.high_52week_price
          /\ t.decrease_30_price = 70 * t.high_52week_price
          /\ \E m \in Rows(fifty_two_week_metrics) :
                SameMetricsKey(m, t) /\ m.high_52week = t.high_52week_price
    /\ \A m \in Rows(fifty_two_week_metrics) :
          \E t \in Rows(decrease_thresholds) :
              SameMetricsKey(m, t) /\ m.high_52week = t.high_52week_price
    /\ \A t1, t2 \in Rows(decrease_thresholds) : SameMetricsKey(t1, t2) => t1 = t2

\* the metrics of one instrument with a trailing high of 8 were stored for
\* two calculation dates, and another instrument has a different high
C15_Witness ==
    /\ metrics_status = "stored"
    /\ \E t1, t2, t3 \in Rows(decrease_thresholds) :
          /\ t1.symbol_id = t2.symbol_id
          /\ t1.calculation_date # t2.calculation_date
          /\ t2.decrease_30_price = 560
          /\ t3.high_52week_price # t2.high_52week_price

SourceFields == <<"open", "high", "low", "close">>

EurFields == <<"open_eur", "high_eur", "low_eur", "close_eur">>

\* C16: convert_price_data_batch returns every record of the batch; a record
\* whose date has no rate in the map the Rate Provider returned has its four
\* EUR fields null, and a record whose date has a rate has each non-zero
\* source price converted with that rate, also next to records without rate.
C16_MissingRateDegradesOneRecord ==
    converted.from_currency \notin {"EUR", "None"} =>
        /\ Len(converted.data) = Len(converted.price_data)
        /\ \A i \in DOMAIN converted.price_data :
              LET inp == converted.price_data[i]
                  out == converted.data[i]
              IN  /\ \A k \in DOMAIN SourceFields : out[SourceFields[k]] = inp[SourceFields[k]]
                  /\ inp.date \notin DOMAIN converted.rates =>
                        \A k \in DOMAIN EurFields : out[EurFields[k]] = NULL
                  /\ inp.date \in DOMAIN converted.rates =>
                        \A k \in DOMAIN EurFields :
                            inp[SourceFields[k]] # 0 =>
                                /\ out[EurFields[k]] # NULL
                                /\ out[EurFields[k]] =
                                      RoundHalfEven(inp[SourceFields[k]] * converted.rates[inp.date][1],
                                                    converted.rates[inp.date][2])

\* a batch of two records of which the first has a rate and the second none
C16_Witness ==
    /\ converted.from_currency = "USD"
    /\ Len(converted.price_data) = 2
    /\ converted.price_data[1].date \in DOMAIN converted.rates
    /\ converted.price_data[2].date \notin DOMAIN converted.rates
    /\ converted.data[1].close_eur # NULL
    /\ converted.data[2].close_eur = NULL

\* C17: a rate stored in the Exchange Rate Cache is immutable: every step
\* keeps each row of currency_rates, with the same key (from_currency,
\* to_currency, rate_date) and the same exchange_rate, also when the Rate
\* Provider later returns another rate for that date.
C17_StoredRateImmutable ==
    [][\A r \in Rows(currency_rates) :
          \E q \in Rows(currency_rates') :
             /\ \A c \in CurrencyRatesKey : q[c] = r[c]
             /\ q.exchange_rate = r.exchange_rate]_vars

\* C18: whenever a cycle has run to completion, also one that reruns a cycle
\* killed inside an instrument on the same day with the same upstream data,
\* the Price Store, the Exchange Rate Cache and the Trailing Metrics are
\* those of one uninterrupted cycle over the same symbols on that day.
C18_RerunEqualsUninterrupted ==
    pc = "returned" =>
        Stores = CycleUninterrupted(EmptyStores, ActiveList(symbols), 1, today)

\* C21: when several bars of the trailing window share the trailing high (or
\* the trailing low), the occurrence date stored by
\* calculate_and_store_metrics is the latest date with that value.
C21_TieTakesLatestDate ==
    [][(pc = "metrics" /\ metrics_status' = "stored") =>
          LET yearly_data == get_market_data_range(etf_data, sym, today - TrailingDays, today)
          IN  \A m \in Rows(fifty_two_week_metrics') :
                 (m.symbol_id = sym /\ m.calculation_date = StrfTime(today)) =>
                     \A i \in DOMAIN yearly_data :
                        /\ yearly_data[i].high = m.high_52week =>
                              TextLeq(yearly_data[i].date, m.high_date)
                        /\ yearly_data[i].low = m.low_52week =>
                              TextLeq(yearly_data[i].date, m.low_date)]_vars

\* the bars stored for the symbol whose date lies in the trailing window
WindowBars(s, now) ==
    {r \in Rows(etf_data) : /\ r.symbol_id = s
                            /\ now - TrailingDays <= StrpTime(r.date)
                            /\ StrpTime(r.date) <= now}

\* C22: the Trailing Metrics stored for (instrument, today) after the upsert
\* hold the maximum high and the minimum low over every bar stored for the
\* instrument with date in [today - 365 days, today], bars of earlier cycles
\* included.
C22_MetricsOverStoredWindow ==
    [][(pc = "metrics" /\ metrics_status' = "stored") =>
          \E m \in Rows(fifty_two_week_metrics') :
             /\ m.symbol_id = sym /\ m.calculation_date = StrfTime(today)
             /\ \A n \in Rows(fifty_two_week_metrics') : SameMetricsKey(n, m) => n = m
             /\ \E r \in WindowBars(sym, today) : r.high = m.high_52week
             /\ \A r \in WindowBars(sym, today) : r.high <= m.high_52week
             /\ \E r \in WindowBars(sym, today) : r.low = m.low_52week
             /\ \A r \in WindowBars(sym, today) : m.low_52week <= r.low]_vars

\* metrics stored after a fetch that brought only bars lower than a bar
\* stored by an earlier cycle, and the stored high is that earlier bar's
C22_Witness ==
    /\ metrics_status = "stored"
    /\ df # <<>>
    /\ \A i \in DOMAIN df : df[i].High < 8
    /\ \E m \in Rows(fifty_two_week_metrics) :
          /\ m.symbol_id = symbol_id /\ m.calculation_date = StrfTime(today)
          /\ m.high_52week = 8
    /\ \E r \in WindowBars(symbol_id, today) :
          r.high = 8 /\ \A i \in DOMAIN df : df[i].date # StrpTime(r.date)

\* C23: within one instrument the steps run in the order fetch, validate,
\* normalize, upsert, metrics: bars and rates are written only in the insert
\* step, for a series the gate accepted; metrics only after the insert
\* committed; each step follows the one before it.  Across instruments the
\* loop moves on only when the current instrument's outcome is recorded, and
\* every earlier instrument of the list then has its outcome.
C23_StepOrder ==
    [][/\ (etf_data' # etf_data \/ currency_rates' # currency_rates) =>
             /\ pc = "insert" /\ last_attempt = "accepted" /\ quote_calls > 0
             /\ df # <<>> /\ validate_data_quality(df).is_valid
             /\ symbol_id = sym
       /\ (fifty_two_week_metrics' # fifty_two_week_metrics
             \/ decrease_thresholds' # decrease_thresholds) =>
             /\ pc = "metrics" /\ insert_status = "committed" /\ symbol_id = sym
       /\ quote_calls' > quote_calls => pc = "fetch" /\ symbol_id = sym /\ insert_status = "none"
       /\ (pc' = "insert" /\ pc # "insert") => pc = "fetch" /\ last_attempt' = "accepted"
       /\ (pc' = "metrics" /\ pc # "metrics") => pc = "insert" /\ insert_status' = "committed"
       /\ (pc' = "fetch" /\ pc # "fetch") => pc = "process"
       /\ (idx' # idx /\ cycle' = cycle) =>
             /\ idx' = idx + 1
             /\ returns[sym] = "none" /\ returns'[sym] # "none"
             /\ \A i \in 1 .. idx : returns'[queue[i]] # "none"
       /\ (pc \in {"process", "fetch", "insert", "metrics"}) =>
             /\ \A i \in 1 .. (idx - 1) : returns[queue[i]] # "none"
             /\ \A i \in idx .. Len(queue) : returns[queue[i]] = "none"]_vars

\* the second instrument of the list is in its metrics step after the first
\* instrument's outcome was recorded
C23_Witness ==
    /\ pc = "metrics" /\ idx = 2
    /\ insert_status = "committed" /\ last_attempt = "accepted"
    /\ returns[queue[1]] = "False"
    /\ \E r \in Rows(etf_data) : r.symbol_id = queue[2]

\* the rows of the cache as it was before the call that match the call's key
RateHits ==
    {r \in Rows(rate_result.cache_before) :
        /\ r.from_currency = rate_result.from_currency
        /\ r.to_currency = rate_result.to_currency
        /\ r.rate_date = StrfTime(rate_result.target_date)}

SameCurrencyIsOne ==
    rate_result.from_currency = rate_result.to_currency =>
        /\ rate_result.returned = <<1, 1>>
        /\ rate_result.cache_reads = 0
        /\ rate_result.asked = <<>>
        /\ rate_result.cache_after = rate_result.cache_before

C25_MissFetchesAndStores ==
    (/\ rate_result.called
     /\ SupportedPair(rate_result.from_currency, rate_result.to_currency)
     /\ RateHits = {}
     /\ ~rate_result.yf.raises
     /\ StrfTime(rate_result.target_date) \in DOMAIN rate_result.yf.hist) =>
        LET rate == rate_result.yf.hist[StrfTime(rate_result.target_date)]
        IN  /\ rate_result.asked =
                  << [from_currency |-> rate_result.from_currency,
                      to_currency |-> rate_result.to_currency,
                      start_date |-> rate_result.target_date,
                      end_date |-> rate_result.target_date] >>
            /\ rate_result.returned = rate

\* every rate of the map the last range call returned is a row of the cache
RatesCached ==
    \A t \in DOMAIN converted.rates :
       \E r \in Rows(currency_rates) :
          /\ r.from_currency = converted.from_currency /\ r.to_currency = "EUR"
          /\ r.rate_date = t /\ r.exchange_rate = converted.rates[t]

C27_FailedFetchWritesNothing ==
    [][/\ pc \in {"process", "fetch"} => UNCHANGED tables
       /\ (pc = "fetch" /\ pc' # "fetch" /\ last_attempt' # "accepted") =>
             /\ last_attempt' \in {"error", "empty", "rejected"}
             /\ returns'[sym] = "False"
             /\ results'.failed = results.failed + 1
             /\ results'.successful = results.successful]_vars

\* an instrument failed after three gate rejections while the stores hold
\* rows written earlier
C27_Witness ==
    /\ gate_failures = max_retries
    /\ last_attempt = "rejected"
    /\ symbol_id \in SymbolIds /\ returns[symbol_id] = "False"
    /\ etf_data # EmptyBag /\ fifty_two_week_metrics # EmptyBag

\* C28: when an instrument is counted as failed, no bar of it was written in
\* this cycle and its watermark is the one read at the start of its
\* processing, also when the metrics recomputation raised after
\* insert_market_data returned.
C28_FailedMeansNoBars ==
    [][(pc \in {"fetch", "insert", "metrics"} /\ returns'[sym] = "False" /\ ~read_error) =>
          /\ insert_status' # "committed"
          /\ Watermark(etf_data', sym) = latest_date]_vars

\* C29: insert_market_data writes a series in one transaction: if the call
\* raised, the Price Store is as it was before the call; if it returned, every
\* bar of the series is stored under (symbol, date); so whenever the
\* watermark of the symbol advances, every bar of the series dated up to the
\* new watermark is stored; and the connection is closed at every exit.
C29_AllOrNothing ==
    [][(calls' = calls + 1) =>
          LET s == last_insert'.symbol_id
              data == last_insert'.data
              stored(i) == \E r \in Rows(etf_data') :
                              /\ r.symbol_id = s /\ r.date = StrfTime(data[i].date)
                              /\ r.open = data[i].Open /\ r.high = data[i].High
                              /\ r.low = data[i].Low /\ r.close = data[i].Close
                              /\ r.volume = data[i].Volume
          IN  /\ last_insert'.raised => etf_data' = etf_data
              /\ ~last_insert'.raised => \A i \in DOMAIN data : stored(i)
              /\ Watermark(etf_data', s) # Watermark(etf_data, s) =>
                    \A i \in DOMAIN data :
                       data[i].date <= Watermark(etf_data', s) => stored(i)
              /\ last_insert'.conn = "None"]_vars

\* a two-bar series whose insert raised on a database error after an earlier
\* insert of the same symbol had committed one bar
C29_Witness ==
    /\ calls = 2
    /\ last_insert.raised /\ last_insert.env.db_error
    /\ Len(last_insert.data) = 2
    /\ RowCount(etf_data, last_insert.symbol_id) = 1
    /\ last_insert.conn = "None"

\* ------------------------------------------------------ run_full_workflow
StepNames ==
    <<"Database Initialization", "Market Data Fetch", "Currency Conversion",
      "Data Export", "Market Insights Export">>

\* lines 99-111, 135-153: the step returns True or re-raises what it caught
BlockingStep(raises) == [raised |-> raises, result |-> TRUE]

\* mutant: the export re-raises what it caught, as the other steps do
run_market_insights_export_Raises(raises) == [raised |-> raises, result |-> TRUE]

\* lines 155-165: an exception of the export is logged and True returned
run_market_insights_export(raises) == [raised |-> FALSE, result |-> TRUE]

\* what run_incremental_update of the fetcher may return to the step
CycleResults ==
    {r \in {[total_symbols |-> k + f, successful |-> k, failed |-> f, errors |-> <<>>] :
                k \in 0 .. Cardinality(SymbolIds), f \in 0 .. Cardinality(SymbolIds)} :
        r.total_symbols <= Cardinality(SymbolIds)}

\* lines 115-116, 131-133: the constructor of the fetcher may raise
FetchStep(fetcher_raises, res) ==
    IF fetcher_raises THEN [raised |-> TRUE, result |-> FALSE]
    ELSE run_market_data_fetch(res)

\* the entry run_step writes to results['steps'], lines 87-95
Recorded(i, step) == [name |-> StepNames[i], success |-> run_step(step).success]

\* save_workflow_results, lines 176-178
OverallSuccess(steps) == \A i \in DOMAIN steps : steps[i].success

\* run_full_workflow, lines 215-251: the steps recorded, in the order of
\* their recording, and the value returned
run_full_workflow(env) ==
    LET r1 == Recorded(1, BlockingStep(env.init_raises))
        r2 == Recorded(2, FetchStep(env.fetcher_raises, env.res))
        r3 == Recorded(3, BlockingStep(env.conversion_raises))
        r4 == Recorded(4, BlockingStep(env.export_raises))
        r5 == Recorded(5, run_market_insights_export(env.insights_raises))
    IN  IF ~r1.success THEN [steps |-> <<r1>>, returned |-> FALSE]
        ELSE IF ~r2.success THEN [steps |-> <<r1, r2>>, returned |-> FALSE]
        ELSE IF ~r3.success THEN [steps |-> <<r1, r2, r3>>, returned |-> FALSE]
        ELSE IF ~r4.success THEN [steps |-> <<r1, r2, r3, r4>>, returned |-> FALSE]
        ELSE [steps |-> <<r1, r2, r3, r4, r5>>,
              returned |-> OverallSuccess(<<r1, r2, r3, r4, r5>>)]

WorkflowEnvs ==
    [init_raises : BOOLEAN, fetcher_raises : BOOLEAN, res : CycleResults,
     conversion_raises : BOOLEAN, export_raises : BOOLEAN, insights_raises : BOOLEAN]

\* EnhancedWorkflowOrchestrator().run_full_workflow()
DirectWorkflow ==
    /\ calls < MaxCalls
    /\ \E env \in WorkflowEnvs :
         LET r == run_full_workflow(env)
         IN  workflow' = [called |-> TRUE, env |-> env, steps |-> r.steps,
                          returned |-> r.returned]
    /\ calls' = calls + 1
    /\ UNCHANGED <<validated, load_pc, rate_result, today, symbols, tables, loop, locals,
                   converted, last_insert, repeated>>

NextFull == DirectWorkflow

SpecFull == InitDirect /\ [][NextFull]_vars

\* C30: run_full_workflow records its steps in the order Database
\* Initialization, Market Data Fetch, Currency Conversion, Data Export, Market
\* Insights Export; a step is recorded only if every step before it was
\* recorded as successful; an exception inside Market Insights Export does
\* not make the workflow fail; and the workflow returns True only if every
\* recorded step has success = True.
C30_WorkflowOrder ==
    workflow.called =>
        /\ Len(workflow.steps) \in 1 .. Len(StepNames)
        /\ \A i \in DOMAIN workflow.steps :
              /\ workflow.steps[i].name = StepNames[i]
              /\ \A j \in 1 .. (i - 1) : workflow.steps[j].success
        /\ (/\ ~workflow.env.init_raises /\ ~workflow.env.fetcher_raises
            /\ ~workflow.env.conversion_raises /\ ~workflow.env.export_raises) =>
              /\ workflow.returned
              /\ Len(workflow.steps) = Len(StepNames)
        /\ workflow.returned =>
              /\ Len(workflow.steps) = Len(StepNames)
              /\ \A i \in DOMAIN workflow.steps : workflow.steps[i].success

\* a run in which the insights export failed inside and the fetch step
\* returned False, and which still recorded five steps and returned True
C30_Witness ==
    /\ workflow.called
    /\ workflow.env.insights_raises
    /\ workflow.env.res.total_symbols = 2 /\ workflow.env.res.successful = 0
    /\ Len(workflow.steps) = 5
    /\ workflow.returned

====
